---- MODULE Spec2Model ----
(***************************************************************************)
(* Model of oci/kms_key_version_resource.go: the oci_kms_key_version       *)
(* resource handler (composite identifier codec, create / read / delete    *)
(* handlers, CRUD methods of KmsKeyVersionResourceCrud).                   *)
(*                                                                         *)
(* Strings are sequences of tokens.  A token is either one character       *)
(* ("/", "%", a hex digit "2", "5", "F", ...) or a word: a run of          *)
(* alphanumeric characters that starts with a non-hex letter and stands    *)
(* for itself ("keys", "keyVersions", "managementEndpoint", "k1", ...).    *)
(* No other token contains the letters of a label, so the substring        *)
(* "keys/" occurs in a string exactly where the token "keys" is followed   *)
(* by the token "/", and "xkeys" is the two tokens "x", "keys".            *)
(***************************************************************************)
EXTENDS Integers, Sequences, FiniteSets, TLC

(***************************************************************************)
(* Bounds of the model.                                                    *)
(***************************************************************************)
MaxSegLen == 2
MaxParts == 5
MaxPolls == 2
MaxOps == 2
MaxObservations == 4

\* The absent value of an optional string: no string has the token "nil".
Nil == <<"nil">>

(***************************************************************************)
(* net/url: PathEscape and PathUnescape on token strings.                  *)
(***************************************************************************)
HexDigits == {"2", "5", "F"}

\* Bytes that PathEscape leaves alone: letters, digits, "-_.~" and "$&+=:@".
\* Every word token is alphanumeric.  Quote is the byte 0x22.
EscapedBytes == {"/", "%", "Quote", "0xF2", "0xF5", "0xFF"}

shouldEscape(c) == c \in EscapedBytes

\* "%" followed by the two upper-case hex digits of the byte.
hexOf(c) ==
    CASE c = "/" -> <<"%", "2", "F">>
      [] c = "%" -> <<"%", "2", "5">>
      [] c = "Quote" -> <<"%", "2", "2">>
      [] c = "0xF2" -> <<"%", "F", "2">>
      [] c = "0xF5" -> <<"%", "F", "5">>
      [] c = "0xFF" -> <<"%", "F", "F">>
      [] OTHER -> <<c>>

\* The byte whose hex digits are h1 h2: unhex(h1)<<4 | unhex(h2).
unhexByte(h1, h2) ==
    CASE h1 = "2" /\ h2 = "F" -> "/"
      [] h1 = "2" /\ h2 = "5" -> "%"
      [] h1 = "2" /\ h2 = "2" -> "Quote"
      [] h1 = "5" /\ h2 = "2" -> "R"
      [] h1 = "5" /\ h2 = "5" -> "U"
      [] h1 = "5" /\ h2 = "F" -> "_"
      [] h1 = "F" /\ h2 = "2" -> "0xF2"
      [] h1 = "F" /\ h2 = "5" -> "0xF5"
      [] OTHER -> "0xFF"

RECURSIVE PathEscape(_)
PathEscape(s) ==
    IF s = <<>> THEN <<>>
    ELSE (IF shouldEscape(Head(s)) THEN hexOf(Head(s)) ELSE <<Head(s)>>)
         \o PathEscape(Tail(s))

\* First pass of unescape: every "%" must be followed by two hex digits.
RECURSIVE validEscapes(_)
validEscapes(s) ==
    IF s = <<>> THEN TRUE
    ELSE IF Head(s) = "%"
         THEN /\ Len(s) >= 3
              /\ s[2] \in HexDigits
              /\ s[3] \in HexDigits
              /\ validEscapes(SubSeq(s, 4, Len(s)))
         ELSE validEscapes(Tail(s))

\* Second pass of unescape, on a string whose escapes are valid.
RECURSIVE unescapeBytes(_)
unescapeBytes(s) ==
    IF s = <<>> THEN <<>>
    ELSE IF Head(s) = "%"
         THEN <<unhexByte(s[2], s[3])>> \o unescapeBytes(SubSeq(s, 4, Len(s)))
         ELSE <<Head(s)>> \o unescapeBytes(Tail(s))

\* url.PathUnescape: ("", EscapeError) on an invalid escape.
PathUnescape(s) ==
    IF validEscapes(s)
    THEN [str |-> unescapeBytes(s), err |-> FALSE]
    ELSE [str |-> <<>>, err |-> TRUE]

(***************************************************************************)
(* strings.Split(s, "/") and regexp matching, as the codec uses them.      *)
(***************************************************************************)
RECURSIVE Split(_)
Split(s) ==
    IF \A i \in 1..Len(s) : s[i] # "/" THEN <<s>>
    ELSE LET i == CHOOSE k \in 1..Len(s) :
                      s[k] = "/" /\ \A j \in 1..(k - 1) : s[j] # "/"
         IN <<SubSeq(s, 1, i - 1)>> \o Split(SubSeq(s, i + 1, Len(s)))

\* lit occurs in s at position i.
occursAt(s, lit, i) ==
    /\ i >= 1
    /\ i + Len(lit) - 1 <= Len(s)
    /\ SubSeq(s, i, i + Len(lit) - 1) = lit

\* regexp.MatchString("keys/.*/keyVersions/.*", s): unanchored, so the
\* pattern may start anywhere in s.
matchCompositeId(s) ==
    \E i \in 1..Len(s) : \E j \in 1..Len(s) :
        /\ occursAt(s, <<"keys", "/">>, i)
        /\ j >= i + 2
        /\ occursAt(s, <<"/", "keyVersions", "/">>, j)

(***************************************************************************)
(* The composite identifier codec.                                         *)
(***************************************************************************)
\* The identifier joined from the segments as they are.
getKeyVersionCompositeIdUnescaped(keyId, keyVersionId) ==
    <<"keys", "/">> \o keyId \o <<"/", "keyVersions", "/">> \o keyVersionId

getKeyVersionCompositeId(keyId, keyVersionId) ==
    <<"keys", "/">> \o PathEscape(keyId)
        \o <<"/", "keyVersions", "/">> \o PathEscape(keyVersionId)

parseKeyVersionCompositeId(compositeId) ==
    LET parts == Split(compositeId)
    IN IF ~matchCompositeId(compositeId) \/ Len(parts) # 4
       THEN [keyId |-> <<>>, keyVersionId |-> <<>>, err |-> TRUE]
       ELSE [keyId |-> PathUnescape(parts[2]).str,
             keyVersionId |-> PathUnescape(parts[4]).str,
             err |-> FALSE]

\* regexp FindStringSubmatch of
\* "^managementEndpoint/(.*)/keys/(.*)/keyVersions/(.*)$": <<>> when the
\* identifier does not match, else the match and its three groups.  Each
\* group is greedy: the first takes the longest text the rest still matches
\* after, then the second.
keysAt(id) ==
    {i \in 3..Len(id) :
        /\ occursAt(id, <<"/", "keys", "/">>, i)
        /\ \E j \in (i + 3)..Len(id) : occursAt(id, <<"/", "keyVersions", "/">>, j)}

keyVersionsAfter(id, i) ==
    {j \in (i + 3)..Len(id) : occursAt(id, <<"/", "keyVersions", "/">>, j)}

maxOf(S) == CHOOSE m \in S : \A n \in S : n <= m

\* The match with the groups of the key and of the key version exchanged.
findImportSubmatchSwapped(id) ==
    IF ~occursAt(id, <<"managementEndpoint", "/">>, 1) \/ keysAt(id) = {}
    THEN <<>>
    ELSE LET i == maxOf(keysAt(id))
             j == maxOf(keyVersionsAfter(id, i))
         IN <<id,
              SubSeq(id, 3, i - 1),
              SubSeq(id, j + 3, Len(id)),
              SubSeq(id, i + 3, j - 1)>>

\* A match that settles for the prefix: what follows "managementEndpoint/"
\* is the endpoint when the labels of the key and key version are missing.
findImportSubmatchLenient(id) ==
    IF ~occursAt(id, <<"managementEndpoint", "/">>, 1)
    THEN <<>>
    ELSE IF keysAt(id) = {}
         THEN <<id, SubSeq(id, 3, Len(id)), <<>>, <<>>>>
         ELSE LET i == maxOf(keysAt(id))
                  j == maxOf(keyVersionsAfter(id, i))
              IN <<id,
                   SubSeq(id, 3, i - 1),
                   SubSeq(id, i + 3, j - 1),
                   SubSeq(id, j + 3, Len(id))>>

findImportSubmatch(id) ==
    IF ~occursAt(id, <<"managementEndpoint", "/">>, 1) \/ keysAt(id) = {}
    THEN <<>>
    ELSE LET i == maxOf(keysAt(id))
             j == maxOf(keyVersionsAfter(id, i))
         IN <<id,
              SubSeq(id, 3, i - 1),
              SubSeq(id, i + 3, j - 1),
              SubSeq(id, j + 3, Len(id))>>

(***************************************************************************)
(* The deletion toggle.                                                    *)
(***************************************************************************)
\* strconv.ParseBool.
ParseBool(str) ==
    IF str \in {"1", "t", "T", "TRUE", "true", "True"}
    THEN [value |-> TRUE, err |-> FALSE]
    ELSE IF str \in {"0", "f", "F", "FALSE", "false", "False"}
         THEN [value |-> FALSE, err |-> FALSE]
         ELSE [value |-> FALSE, err |-> TRUE]

\* The setting's value, or the default when the setting is unset.
getEnvSettingWithDefault(value, dv) == IF value = "" THEN dv ELSE value

\* The toggle never engaged.
disableKmsVersionDeletionNever(value) == FALSE

\* The toggle engaged unless it is set to a false value.
disableKmsVersionDeletionDefaultOn(value) ==
    value = "" \/ value \notin {"0", "f", "F", "FALSE", "false", "False"}

\* Line 126: the toggle as deleteKmsKeyVersion reads it.
disableKmsVersionDeletion(value) ==
    ParseBool(getEnvSettingWithDefault(value, "false")).value

(***************************************************************************)
(* Timestamps.  A timestamp string is one token; t1 is the instant it      *)
(* denotes.                                                                *)
(***************************************************************************)
RFC3339NanoString == <<"2019-08-25T21:10:29.41Z">>
GoTimeString == <<"2019-08-25 21:10:29.41 +0000 UTC">>
T1 == <<"t1">>

\* time.Parse(time.RFC3339Nano, value).
parseRFC3339Nano(value) ==
    IF value = RFC3339NanoString
    THEN [time |-> T1, err |-> FALSE]
    ELSE [time |-> Nil, err |-> TRUE]

\* SDKTime embeds time.Time, whose String() prints
\* "2006-01-02 15:04:05.999999999 -0700 MST".
sdkTimeString(t) == IF t = T1 THEN GoTimeString ELSE <<>>

(***************************************************************************)
(* State.                                                                  *)
(*   codec    a call of the codec under test: its arguments and results    *)
(*   env      value of the disable_kms_version_delete setting ("" = unset) *)
(*   d        the schema.ResourceData of the resource instance             *)
(*   Res      sync.Res, the snapshot held by the KmsKeyVersionResourceCrud *)
(*   pc       position of the running handler ("idle" between handlers)    *)
(*   op       the handler that ran last or is running                      *)
(*   ret      what the handler returned                                    *)
(*   calls    remote calls issued by the handler, in order                 *)
(*   response the CreateKeyVersion response held while Create sleeps       *)
(*   slept    seconds slept by Create since the remote create              *)
(*   polls    observations made by the running poll                        *)
(*   d0       d as it was when the handler was entered                     *)
(*   ops      handlers the driver has entered                              *)
(*   observed the answers a poll on its own has observed, in order         *)
(***************************************************************************)
VARIABLES codec, env, d, Res, pc, op, ret, calls, response, slept, polls, d0, ops,
          observed

vars == <<codec, env, d, Res, pc, op, ret, calls, response, slept, polls, d0, ops,
          observed>>
mainVars == <<env, d, Res, pc, op, ret, calls, response, slept, polls, d0, ops,
              observed>>

\* A KeyVersion none of whose fields is set; sync.Res before any Create or Get.
NoKeyVersion ==
    [Id |-> Nil, KeyId |-> Nil, CompartmentId |-> Nil, LifecycleState |-> <<>>,
     TimeCreated |-> Nil, TimeOfDeletion |-> Nil, VaultId |-> Nil]

\* A ResourceData with no identifier and no field set.
NoData ==
    [id |-> <<>>, management_endpoint |-> Nil, key_id |-> Nil,
     key_version_id |-> Nil, time_of_deletion |-> Nil, compartment_id |-> Nil,
     state |-> Nil, time_created |-> Nil, vault_id |-> Nil]

(***************************************************************************)
(* Inputs of the codec specification.                                      *)
(***************************************************************************)
CodecAlphabet == {"/", "%", "2", "F", "x", "keys"}

RECURSIVE StrsOver(_, _)
StrsOver(alphabet, n) ==
    IF n = 0 THEN {<<>>}
    ELSE LET shorter == StrsOver(alphabet, n - 1)
         IN shorter \cup {Append(s, c) : s \in shorter, c \in alphabet}

Segments == StrsOver(CodecAlphabet, MaxSegLen)

\* Parts that raw identifiers handed to the parser are joined from.
RawParts == {<<>>, <<"keys">>, <<"keyVersions">>, <<"x", "keys">>, <<"x">>,
             <<"%", "2">>}

\* The identifiers of exactly n parts.
RECURSIVE Joined(_)
Joined(n) ==
    IF n = 1 THEN RawParts
    ELSE {p \o <<"/">> \o rest : p \in RawParts, rest \in Joined(n - 1)}

RawIds == UNION {Joined(n) : n \in 1..MaxParts}

NoResult == [keyId |-> <<>>, keyVersionId |-> <<>>, err |-> FALSE]

IdleMain ==
    /\ env = ""
    /\ d = NoData
    /\ Res = NoKeyVersion
    /\ pc = "idle"
    /\ op = "none"
    /\ ret = "nil"
    /\ calls = <<>>
    /\ response = NoKeyVersion
    /\ slept = 0
    /\ polls = 0
    /\ d0 = NoData
    /\ ops = 0
    /\ observed = <<>>

InitCodec ==
    /\ IdleMain
    /\ \/ \E a \in Segments, b \in Segments :
              codec = [stage |-> "args", keyId |-> a, keyVersionId |-> b,
                       compositeId |-> <<>>, out |-> NoResult]
       \/ \E id \in RawIds :
              codec = [stage |-> "raw", keyId |-> <<>>, keyVersionId |-> <<>>,
                       compositeId |-> id, out |-> NoResult]

\* A caller encodes (keyId, keyVersionId).
CodecEncode ==
    /\ codec.stage = "args"
    /\ codec' = [codec EXCEPT
                    !.stage = "encoded",
                    !.compositeId =
                        getKeyVersionCompositeId(codec.keyId, codec.keyVersionId)]
    /\ UNCHANGED mainVars

\* A caller decodes the identifier it holds.
CodecParse ==
    /\ codec.stage \in {"encoded", "raw"}
    /\ codec' = [codec EXCEPT
                    !.stage = IF codec.stage = "encoded"
                              THEN "roundtrip" ELSE "parsed",
                    !.out = parseKeyVersionCompositeId(codec.compositeId)]
    /\ UNCHANGED mainVars

NextCodec == CodecEncode \/ CodecParse

SpecCodec == InitCodec /\ [][NextCodec]_vars

(***************************************************************************)
(* Claims about the codec.                                                 *)
(***************************************************************************)

\* C1: decoding the encoding of any pair (keyId, keyVersionId), including
\* ones with "/", "%" and the empty string, gives the pair back, no error.
CodecRoundTrip ==
    codec.stage = "roundtrip" =>
        codec.out = [keyId |-> codec.keyId,
                     keyVersionId |-> codec.keyVersionId,
                     err |-> FALSE]

CodecRoundTripWitness ==
    /\ codec.stage = "roundtrip"
    /\ codec.keyId = <<"/", "%">>
    /\ codec.keyVersionId = <<>>
    /\ codec.compositeId =
           <<"keys", "/", "%", "2", "F", "%", "2", "5", "/", "keyVersions", "/">>
    /\ codec.out.keyId = <<"/", "%">>

\* The grammar keys/<seg>/keyVersions/<seg>: exactly four "/"-delimited
\* parts, the first literally "keys", the third literally "keyVersions".
slashesOf(id) == {i \in 1..Len(id) : id[i] = "/"}

inGrammar(id) ==
    /\ Cardinality(slashesOf(id)) = 3
    /\ occursAt(id, <<"keys", "/">>, 1)
    /\ \E j \in slashesOf(id) : j > 2 /\ occursAt(id, <<"/", "keyVersions", "/">>, j)

\* C2: the parser returns an error for every identifier outside the grammar
\* keys/<seg>/keyVersions/<seg>, also when the first part only ends in "keys".
GrammarRejection ==
    (codec.stage = "parsed" /\ ~inGrammar(codec.compositeId)) => codec.out.err

\* C3: the parser either fails with both outputs empty, or succeeds with the
\* percent-unescaped contents of parts 2 and 4; a part that is not validly
\* percent-encoded never yields a success with an emptied segment.
DecodeAllOrNothing ==
    codec.stage = "parsed" =>
        LET parts == Split(codec.compositeId)
        IN \/ /\ codec.out.err
              /\ codec.out.keyId = <<>>
              /\ codec.out.keyVersionId = <<>>
           \/ /\ ~codec.out.err
              /\ Len(parts) = 4
              /\ validEscapes(parts[2])
              /\ validEscapes(parts[4])
              /\ codec.out.keyId = unescapeBytes(parts[2])
              /\ codec.out.keyVersionId = unescapeBytes(parts[4])

(***************************************************************************)
(* The remote service and the local store, as the handlers see them.       *)
(***************************************************************************)
SettleDelay == 30

LifecycleStates ==
    {<<"CREATING">>, <<"ENABLING">>, <<"ENABLED">>, <<"DISABLED">>,
     <<"DELETING">>, <<"SCHEDULING_DELETION">>, <<"PENDING_DELETION">>,
     <<"DELETED">>}

\* Key versions the remote service may answer with.
KeyVersionIdentities ==
    {[NoKeyVersion EXCEPT !.Id = <<"v1">>, !.KeyId = <<"k1">>,
                          !.CompartmentId = <<"c1">>, !.TimeCreated = T1,
                          !.VaultId = <<"vault1">>],
     [NoKeyVersion EXCEPT !.Id = <<"/", "%">>, !.KeyId = <<"k2", "/">>,
                          !.TimeCreated = T1, !.TimeOfDeletion = T1],
     [NoKeyVersion EXCEPT !.Id = <<"v1">>, !.CompartmentId = <<"c1">>,
                          !.TimeOfDeletion = T1, !.VaultId = <<"vault1">>]}

ObservedStates == {<<"CREATING">>, <<"ENABLED">>, <<"DISABLED">>, <<"DELETED">>}

KeyVersions ==
    {[kv EXCEPT !.LifecycleState = st] :
        kv \in KeyVersionIdentities, st \in ObservedStates}

RemoteErrors == {"NotFound", "RemoteError"}

\* What a remote call answers: an error, or (err = "nil") a key version.
RemoteOutcomes ==
    [err : RemoteErrors, kv : {NoKeyVersion}] \cup [err : {"nil"}, kv : KeyVersions]

\* A remote call as the service sees it: the request's fields, and the error
\* the service answers with ("nil" for none).
Request(rpc, keyId, keyVersionId, timeOfDeletion, answer) ==
    [rpc |-> rpc, KeyId |-> keyId, KeyVersionId |-> keyVersionId,
     TimeOfDeletion |-> timeOfDeletion, err |-> answer]

\* Identifiers of the import shape.
importId(e, k, v) ==
    <<"managementEndpoint", "/">> \o e \o <<"/", "keys", "/">> \o k
        \o <<"/", "keyVersions", "/">> \o v

ImportEndpoints == {<<"p1">>, <<"https", ":", "/", "/", "p1">>}
ImportKeyIds == {<<"k1">>, <<"k", "/", "%">>}
ImportKeyVersionIds == {<<"v1">>}

ImportIds ==
    {importId(e, k, v) :
        e \in ImportEndpoints, k \in ImportKeyIds, v \in ImportKeyVersionIds}

\* Identifiers local state may hold when a handler is entered.
LocalIds ==
    {<<>>,
     <<"keys", "/", "k1", "/", "keyVersions", "/", "v1">>,
     <<"keys", "/", "%", "2", "F", "/", "keyVersions", "/", "%", "2", "5">>,
     <<"keys", "/", "%", "/", "keyVersions", "/", "v1">>,
     <<"junk">>,
     <<"managementEndpoint", "/", "p1", "/", "keys", "/", "k1">>}
        \cup ImportIds

EnvValues == {"", "true", "false", "yes"}

LocalTimes == {Nil, RFC3339NanoString, <<"tomorrow">>}

Init ==
    /\ codec = [stage |-> "idle", keyId |-> <<>>, keyVersionId |-> <<>>,
                compositeId |-> <<>>, out |-> NoResult]
    /\ env \in EnvValues
    /\ \E id \in LocalIds, declared \in BOOLEAN, t \in LocalTimes :
          d = [NoData EXCEPT
                 !.id = id,
                 !.management_endpoint = IF declared THEN <<"p1">> ELSE Nil,
                 !.key_id = IF declared THEN <<"k0">> ELSE Nil,
                 !.time_of_deletion = t]
    /\ Res = NoKeyVersion
    /\ pc = "idle"
    /\ op = "none"
    /\ ret = "nil"
    /\ calls = <<>>
    /\ response = NoKeyVersion
    /\ slept = 0
    /\ polls = 0
    /\ d0 = d
    /\ ops = 0
    /\ observed = <<>>

\* A handler is entered with a fresh KmsKeyVersionResourceCrud.
Enter(handler) ==
    /\ pc = "idle"
    /\ ops < MaxOps
    /\ ops' = ops + 1
    /\ op' = handler
    /\ d0' = d
    /\ calls' = <<>>
    /\ Res' = NoKeyVersion
    /\ response' = NoKeyVersion
    /\ slept' = 0
    /\ polls' = 0
    /\ UNCHANGED <<observed, codec, env>>

(***************************************************************************)
(* Methods of KmsKeyVersionResourceCrud.                                   *)
(***************************************************************************)
\* ID() from the locally declared fields instead of the snapshot.
IDFromLocalFields(res, data) ==
    getKeyVersionCompositeId(data.key_id, data.key_version_id)

\* ID(): res is s.Res, data is s.D.
ID(res, data) == getKeyVersionCompositeId(res.KeyId, res.Id)

\* CreatedPending() without the state a new key version starts in.
CreatedPendingWithoutCreating == {<<"ENABLING">>}

CreatedPending == {<<"CREATING">>, <<"ENABLING">>}

\* CreatedTarget() that takes a key version being enabled for an enabled one.
CreatedTargetWithEnabling == {<<"ENABLED">>, <<"ENABLING">>}

CreatedTarget == {<<"ENABLED">>}

\* DeletedPending() that waits on an enabled key version.
DeletedPendingWithEnabled ==
    {<<"DISABLED">>, <<"DELETING">>, <<"SCHEDULING_DELETION">>, <<"ENABLED">>}

DeletedPending == {<<"DISABLED">>, <<"DELETING">>, <<"SCHEDULING_DELETION">>}

\* DeletedTarget() without the state of a scheduled deletion.
DeletedTargetWithoutPendingDeletion == {<<"DELETED">>}

DeletedTarget == {<<"DELETED">>, <<"PENDING_DELETION">>}

\* Get() that sends the request whatever the decoding said.
GetIgnoringDecodeError(id, res, out) ==
    LET p == parseKeyVersionCompositeId(id)
    IN [err |-> out.err,
        requests |-> <<Request("GetKeyVersion", p.keyId, p.keyVersionId, Nil,
                                   out.err)>>,
        Res |-> IF out.err = "nil" THEN out.kv ELSE res]

\* Get() that takes a key version the service does not find for one read.
GetForgivingNotFound(id, res, out) ==
    LET p == parseKeyVersionCompositeId(id)
    IN IF p.err
       THEN [err |-> "illegal compositeId", requests |-> <<>>, Res |-> res]
       ELSE [err |-> IF out.err = "NotFound" THEN "nil" ELSE out.err,
             requests |-> <<Request("GetKeyVersion", p.keyId, p.keyVersionId, Nil,
                                   out.err)>>,
             Res |-> IF out.err = "nil" THEN out.kv ELSE res]

\* Get(): id is s.D.Id(), res is s.Res, out is what GetKeyVersion answers if
\* it is called.  Gives the error returned, the requests sent and the new
\* s.Res.
Get(id, res, out) ==
    LET p == parseKeyVersionCompositeId(id)
    IN IF p.err
       THEN [err |-> "illegal compositeId", requests |-> <<>>, Res |-> res]
       ELSE [err |-> out.err,
             requests |-> <<Request("GetKeyVersion", p.keyId, p.keyVersionId, Nil,
                                   out.err)>>,
             Res |-> IF out.err = "nil" THEN out.kv ELSE res]

\* Delete() that drops a time_of_deletion it cannot parse and goes on.
DeleteIgnoringTimeError(data, remoteErr) ==
    LET p == parseKeyVersionCompositeId(data.id)
        t == parseRFC3339Nano(data.time_of_deletion)
    IN IF p.err
       THEN [err |-> "illegal compositeId", requests |-> <<>>]
       ELSE [err |-> remoteErr,
             requests |-> <<Request("ScheduleKeyVersionDeletion",
                                    p.keyId, p.keyVersionId, t.time,
                                    remoteErr)>>]

\* Delete(): data is s.D, remoteErr is what ScheduleKeyVersionDeletion
\* answers if it is called.  Gives the error returned and the requests sent.
Delete(data, remoteErr) ==
    LET p == parseKeyVersionCompositeId(data.id)
        t == parseRFC3339Nano(data.time_of_deletion)
    IN IF p.err
       THEN [err |-> "illegal compositeId", requests |-> <<>>]
       ELSE IF data.time_of_deletion # Nil /\ t.err
            THEN [err |-> "InvalidTimestamp", requests |-> <<>>]
            ELSE [err |-> remoteErr,
                  requests |-> <<Request("ScheduleKeyVersionDeletion",
                                         p.keyId, p.keyVersionId,
                                         IF data.time_of_deletion # Nil
                                         THEN t.time ELSE Nil,
                                         remoteErr)>>]

\* SetData() without the fields decoded from the identifier.
SetDataSnapshotOnly(data, res) ==
    LET d2 == IF res.CompartmentId # Nil
              THEN [data EXCEPT !.compartment_id = res.CompartmentId] ELSE data
        d3 == IF res.KeyId # Nil THEN [d2 EXCEPT !.key_id = res.KeyId] ELSE d2
        d4 == [d3 EXCEPT !.state = res.LifecycleState]
        d5 == IF res.TimeCreated # Nil
              THEN [d4 EXCEPT !.time_created = sdkTimeString(res.TimeCreated)]
              ELSE d4
        d6 == IF res.TimeOfDeletion # Nil
              THEN [d5 EXCEPT !.time_of_deletion = sdkTimeString(res.TimeOfDeletion)]
              ELSE d5
    IN IF res.VaultId # Nil THEN [d6 EXCEPT !.vault_id = res.VaultId] ELSE d6

\* SetData() that gives up when the identifier does not decode.
SetDataStoppingOnBadId(data, res) ==
    LET p == parseKeyVersionCompositeId(data.id)
    IN IF p.err THEN data
       ELSE SetDataSnapshotOnly([data EXCEPT !.key_id = p.keyId,
                                             !.key_version_id = p.keyVersionId],
                                res)

\* SetData() that takes key_version_id from the local key_id it finds.
SetDataVersionFromLocalKey(data, res) ==
    LET p == parseKeyVersionCompositeId(data.id)
    IN SetDataSnapshotOnly(IF p.err THEN data
                           ELSE [data EXCEPT !.key_id = p.keyId,
                                             !.key_version_id = data.key_id],
                           res)

\* SetData(): the local fields after projecting the snapshot res.
SetData(data, res) ==
    LET p == parseKeyVersionCompositeId(data.id)
        d1 == IF p.err THEN data
              ELSE [data EXCEPT !.key_id = p.keyId,
                                !.key_version_id = p.keyVersionId]
        d2 == IF res.CompartmentId # Nil
              THEN [d1 EXCEPT !.compartment_id = res.CompartmentId] ELSE d1
        d3 == IF res.KeyId # Nil THEN [d2 EXCEPT !.key_id = res.KeyId] ELSE d2
        d4 == [d3 EXCEPT !.state = res.LifecycleState]
        d5 == IF res.TimeCreated # Nil
              THEN [d4 EXCEPT !.time_created = sdkTimeString(res.TimeCreated)]
              ELSE d4
        d6 == IF res.TimeOfDeletion # Nil
              THEN [d5 EXCEPT !.time_of_deletion = sdkTimeString(res.TimeOfDeletion)]
              ELSE d5
    IN IF res.VaultId # Nil THEN [d6 EXCEPT !.vault_id = res.VaultId] ELSE d6

(***************************************************************************)
(* The lifecycle poller: one observation of a poll.                        *)
(***************************************************************************)
\* What the poll does after an observation g (a result of Get): "success",
\* "wait", or the error it fails with.
pollOutcome(g, pending, target, expired, absentIsDeleted) ==
    IF g.err # "nil"
    THEN IF absentIsDeleted /\ g.err = "NotFound" THEN "success" ELSE g.err
    ELSE IF g.Res.LifecycleState \in target THEN "success"
         ELSE IF g.Res.LifecycleState \in pending
              THEN IF expired THEN "Timeout" ELSE "wait"
              ELSE "UnexpectedState"

(***************************************************************************)
(* Handlers.  The driver calls Create on a resource with no identifier    *)
(* and Read or Delete on one that has an identifier.                       *)
(***************************************************************************)
\* createKmsKeyVersion up to its call of CreateResource.
createKmsKeyVersion ==
    /\ Enter("createKmsKeyVersion")
    /\ d.id = <<>>
    /\ \E clientErr \in BOOLEAN :
          IF d.management_endpoint = Nil
          THEN ret' = "management endpoint missing" /\ pc' = "idle"
          ELSE IF clientErr
               THEN ret' = "client error" /\ pc' = "idle"
               ELSE ret' = "running" /\ pc' = "Create"
    /\ UNCHANGED d

\* Create(): the remote CreateKeyVersion call.
CreateCall ==
    /\ pc = "Create"
    /\ \E out \in RemoteOutcomes :
          /\ calls' = Append(calls, Request("CreateKeyVersion", d.key_id, Nil, Nil,
                                         out.err))
          /\ IF out.err # "nil"
             THEN ret' = out.err /\ pc' = "idle" /\ UNCHANGED response
             ELSE response' = out.kv /\ pc' = "CreateSleep" /\ UNCHANGED ret
    /\ UNCHANGED <<observed, codec, env, d, Res, op, slept, polls, d0, ops>>

\* Create() returning before it has slept.
sleepDoneAtOnce == slept >= 0

\* time.Sleep(time.Second * 30) has returned.
sleepDone == slept = SettleDelay

\* Create(): one second of the sleep.
CreateSleep ==
    /\ pc = "CreateSleep"
    /\ slept < SettleDelay
    /\ slept' = slept + 1
    /\ UNCHANGED <<observed, codec, env, d, Res, pc, op, ret, calls, response, polls, d0, ops>>

\* Create() sets s.Res and returns; the driver stores ID() as the local
\* identifier.  ID() dereferences s.Res.KeyId: a nil KeyId panics.
CreateReturn ==
    /\ pc = "CreateSleep"
    /\ sleepDone
    /\ Res' = response
    /\ IF response.KeyId = Nil
       THEN ret' = "panic" /\ pc' = "idle" /\ UNCHANGED d
       ELSE d' = [d EXCEPT !.id = ID(response, d)] /\ pc' = "CreatePoll"
            /\ UNCHANGED ret
    /\ UNCHANGED <<observed, codec, env, op, calls, response, slept, polls, d0, ops>>

\* An observation of the poll that follows Create.
CreatedWait ==
    /\ pc = "CreatePoll"
    /\ \E out \in RemoteOutcomes, expired \in BOOLEAN :
          LET g == Get(d.id, Res, out)
              o == pollOutcome(g, CreatedPending, CreatedTarget,
                               expired \/ polls + 1 >= MaxPolls, FALSE)
          IN /\ calls' = calls \o g.requests
             /\ Res' = g.Res
             /\ polls' = polls + 1
             /\ pc' = IF o = "wait" THEN "CreatePoll"
                      ELSE IF o = "success" THEN "CreateSetData" ELSE "idle"
             /\ ret' = IF o \in {"wait", "success"} THEN ret ELSE o
    /\ UNCHANGED <<observed, codec, env, d, op, response, slept, d0, ops>>

\* readKmsKeyVersion up to its call of ReadResource.
readKmsKeyVersion ==
    /\ Enter("readKmsKeyVersion")
    /\ d.id # <<>>
    /\ \E clientErr \in BOOLEAN :
          LET tokens == findImportSubmatch(d.id)
              imported == d.management_endpoint = Nil
          IN IF imported /\ Len(tokens) # 4
             THEN ret' = "id should be of format" /\ pc' = "idle" /\ UNCHANGED d
             ELSE /\ d' = IF imported
                          THEN [d EXCEPT
                                  !.management_endpoint = tokens[2],
                                  !.key_id = tokens[3],
                                  !.key_version_id = tokens[4],
                                  !.id = getKeyVersionCompositeId(tokens[3], tokens[4])]
                          ELSE d
                  /\ IF clientErr
                     THEN ret' = "client error" /\ pc' = "idle"
                     ELSE ret' = "running" /\ pc' = "ReadGet"

\* ReadResource calls Get().
ReadGet ==
    /\ pc = "ReadGet"
    /\ \E out \in RemoteOutcomes :
          LET g == Get(d.id, Res, out)
          IN /\ calls' = calls \o g.requests
             /\ Res' = g.Res
             /\ IF g.err # "nil"
                THEN ret' = g.err /\ pc' = "idle"
                ELSE pc' = "ReadSetData" /\ UNCHANGED ret
    /\ UNCHANGED <<observed, codec, env, d, op, response, slept, polls, d0, ops>>

\* The driver calls SetData() after a successful Get or poll.
SetDataStep ==
    /\ pc \in {"CreateSetData", "ReadSetData"}
    /\ d' = SetData(d, Res)
    /\ ret' = "nil"
    /\ pc' = "idle"
    /\ UNCHANGED <<observed, codec, env, Res, op, calls, response, slept, polls, d0, ops>>

\* deleteKmsKeyVersion up to its call of DeleteResource.
deleteKmsKeyVersion ==
    /\ Enter("deleteKmsKeyVersion")
    /\ d.id # <<>>
    /\ \E clientErr \in BOOLEAN :
          IF disableKmsVersionDeletion(env)
          THEN ret' = "nil" /\ pc' = "idle"
          ELSE IF d.management_endpoint = Nil
               THEN ret' = "management endpoint missing" /\ pc' = "idle"
               ELSE IF clientErr
                    THEN ret' = "client error" /\ pc' = "idle"
                    ELSE ret' = "running" /\ pc' = "Delete"
    /\ UNCHANGED d

\* DeleteResource calls Delete().
DeleteCall ==
    /\ pc = "Delete"
    /\ \E remoteErr \in RemoteErrors \cup {"nil"} :
          LET r == Delete(d, remoteErr)
          IN /\ calls' = calls \o r.requests
             /\ IF r.err # "nil"
                THEN ret' = r.err /\ pc' = "idle"
                ELSE pc' = "DeletePoll" /\ UNCHANGED ret
    /\ UNCHANGED <<observed, codec, env, d, Res, op, response, slept, polls, d0, ops>>

\* An observation of the poll that follows Delete.
DeletedWait ==
    /\ pc = "DeletePoll"
    /\ \E out \in RemoteOutcomes, expired \in BOOLEAN :
          LET g == Get(d.id, Res, out)
              o == pollOutcome(g, DeletedPending, DeletedTarget,
                               expired \/ polls + 1 >= MaxPolls, TRUE)
          IN /\ calls' = calls \o g.requests
             /\ Res' = g.Res
             /\ polls' = polls + 1
             /\ pc' = IF o = "wait" THEN "DeletePoll" ELSE "idle"
             /\ ret' = IF o = "wait" THEN ret
                       ELSE IF o = "success" THEN "nil" ELSE o
    /\ UNCHANGED <<observed, codec, env, d, op, response, slept, d0, ops>>

Next ==
    \/ createKmsKeyVersion
    \/ CreateCall
    \/ CreateSleep
    \/ CreateReturn
    \/ CreatedWait
    \/ readKmsKeyVersion
    \/ ReadGet
    \/ SetDataStep
    \/ deleteKmsKeyVersion
    \/ DeleteCall
    \/ DeletedWait

Spec == Init /\ [][Next]_vars

(***************************************************************************)
(* Claims about the handlers.                                              *)
(***************************************************************************)
TrueStrings == {"1", "t", "T", "TRUE", "true", "True"}
FalseStrings == {"0", "f", "F", "FALSE", "false", "False"}

deleteReturned == op = "deleteKmsKeyVersion" /\ pc = "idle"

\* C4: when the toggle is engaged as deleteKmsKeyVersion is invoked, the
\* handler returns success, no remote call is issued (no schedule-deletion,
\* no Get of a poll) and the local state is what it was, whatever the local
\* identifier and whether or not a management endpoint is set.
GuardSuppression ==
    (op = "deleteKmsKeyVersion" /\ env \in TrueStrings) =>
        /\ pc = "idle"
        /\ ret = "nil"
        /\ calls = <<>>
        /\ d = d0

GuardSuppressionWitness ==
    /\ deleteReturned
    /\ env = "true"
    /\ ret = "nil"
    /\ calls = <<>>
    /\ d.id = <<"junk">>
    /\ d.management_endpoint = Nil

\* C5: when the toggle is unset or is not a boolean, the guard is
\* disengaged: deleteKmsKeyVersion takes the normal path, so it fails on a
\* missing management endpoint and it returns success only after a remote
\* schedule-deletion call.
GuardDefault ==
    (deleteReturned /\ env \notin TrueStrings \cup FalseStrings) =>
        /\ d0.management_endpoint = Nil => ret = "management endpoint missing"
        /\ ret = "nil" =>
              /\ Len(calls) >= 1
              /\ calls[1].rpc = "ScheduleKeyVersionDeletion"
              /\ calls[1].err = "nil"

GuardDefaultWitness ==
    /\ deleteReturned
    /\ env = "yes"
    /\ ret = "nil"
    /\ Len(calls) >= 1
    /\ calls[1].rpc = "ScheduleKeyVersionDeletion"

lastCall(cs) == cs[Len(cs)]

\* What a step that calls Get() does.
getStepContract ==
    pc \in {"ReadGet", "CreatePoll", "DeletePoll"} =>
    LET p == parseKeyVersionCompositeId(d.id)
    IN IF p.err
       THEN /\ calls' = calls
            /\ Res' = Res
            /\ ret' = "illegal compositeId"
            /\ pc' = "idle"
       ELSE /\ Len(calls') = Len(calls) + 1
            /\ SubSeq(calls', 1, Len(calls)) = calls
            /\ lastCall(calls').rpc = "GetKeyVersion"
            /\ lastCall(calls').KeyId = p.keyId
            /\ lastCall(calls').KeyVersionId = p.keyVersionId
            /\ IF lastCall(calls').err = "nil"
               THEN Res' \in KeyVersions
               ELSE Res' = Res
            /\ (pc = "ReadGet" /\ lastCall(calls').err # "nil") =>
                  (ret' = lastCall(calls').err /\ pc' = "idle")

\* C6: a Get whose local identifier does not decode returns the decode
\* error, issues no remote call and leaves Res alone; one that decodes
\* issues exactly one GetKeyVersion with the decoded pair, and replaces Res
\* only when the fetch succeeds; ReadResource returns a remote error
\* (NotFound included) as the service gave it.
GetContract == [][getStepContract]_vars

GetContractWitness ==
    /\ op = "readKmsKeyVersion"
    /\ pc = "idle"
    /\ d.id = <<"junk">>
    /\ ret = "illegal compositeId"
    /\ calls = <<>>
    /\ Res = NoKeyVersion

\* What the step that calls Delete() does.
deleteStepContract ==
    pc = "Delete" =>
        LET p == parseKeyVersionCompositeId(d.id)
        IN /\ env \notin TrueStrings
           /\ calls = <<>>
           /\ IF p.err
              THEN calls' = <<>> /\ ret' = "illegal compositeId" /\ pc' = "idle"
              ELSE IF d.time_of_deletion \notin {Nil, RFC3339NanoString}
                   THEN calls' = <<>> /\ ret' = "InvalidTimestamp" /\ pc' = "idle"
                   ELSE /\ Len(calls') = 1
                        /\ calls'[1].rpc = "ScheduleKeyVersionDeletion"
                        /\ calls'[1].KeyId = p.keyId
                        /\ calls'[1].KeyVersionId = p.keyVersionId
                        /\ calls'[1].TimeOfDeletion # Nil <=> d.time_of_deletion # Nil
                        /\ d.time_of_deletion # Nil => calls'[1].TimeOfDeletion = T1

\* C7: with the guard disengaged, Delete issues no schedule-deletion call
\* when the local identifier does not decode or when a time_of_deletion that
\* is set does not parse, and returns the error; otherwise it issues exactly
\* one schedule-deletion call with the decoded pair, with a deletion
\* timestamp if and only if time_of_deletion is set.
DeleteContract == [][deleteStepContract]_vars

DeleteContractWitness ==
    /\ deleteReturned
    /\ d.time_of_deletion = <<"tomorrow">>
    /\ ~parseKeyVersionCompositeId(d.id).err
    /\ ret = "InvalidTimestamp"
    /\ calls = <<>>

createRunning == op = "createKmsKeyVersion"

\* C8: when the remote create succeeds, Create returns only after the whole
\* settle delay, so every Get of the create is issued after it, and on
\* return Res is the key version of the creation response; when the remote
\* create fails, its error is returned as it is, no delay is taken and Res
\* is not set.
CreateOrdering ==
    createRunning =>
        /\ pc \in {"CreatePoll", "CreateSetData"} => slept = SettleDelay
        /\ (\E i \in 1..Len(calls) : calls[i].rpc = "GetKeyVersion") =>
              slept = SettleDelay
        /\ (pc = "CreatePoll" /\ polls = 0) =>
              (Res = response /\ Res \in KeyVersions /\ calls[1].err = "nil")
        /\ (Len(calls) >= 1 /\ calls[1].err # "nil") =>
              /\ pc = "idle"
              /\ ret = calls[1].err
              /\ Len(calls) = 1
              /\ slept = 0
              /\ Res = NoKeyVersion
              /\ d = d0

CreateOrderingWitness ==
    /\ createRunning
    /\ Len(calls) = 2
    /\ calls[1].rpc = "CreateKeyVersion"
    /\ calls[2].rpc = "GetKeyVersion"
    /\ slept = SettleDelay

\* C9: the identifier the driver stores after a successful Create is the
\* encoding of (Res.KeyId, Res.Id) of the snapshot, whatever key_id and
\* key_version_id hold locally, and the next Get asks the remote service for
\* exactly the (KeyId, Id) of the creation response.
IdentityFromSnapshot ==
    createRunning =>
        /\ (pc = "CreatePoll" /\ polls = 0) =>
              /\ d.id = <<"keys", "/">> \o PathEscape(response.KeyId)
                           \o <<"/", "keyVersions", "/">> \o PathEscape(response.Id)
              /\ d.key_id = d0.key_id
              /\ d.key_version_id = d0.key_version_id
        /\ Len(calls) >= 2 =>
              /\ calls[2].rpc = "GetKeyVersion"
              /\ calls[2].KeyId = response.KeyId
              /\ calls[2].KeyVersionId = response.Id

IdentityFromSnapshotWitness ==
    /\ createRunning
    /\ Len(calls) >= 2
    /\ response.KeyId = <<"k2", "/">>
    /\ response.Id = <<"/", "%">>
    /\ d.key_id = <<"k0">>
    /\ calls[2].KeyId = <<"k2", "/">>
    /\ calls[2].KeyVersionId = <<"/", "%">>

\* C10: a read of local state without a management endpoint whose identifier
\* is managementEndpoint/{e}/keys/{k}/keyVersions/{v} sets
\* management_endpoint to e, key_id to k, key_version_id to v and the
\* identifier to the encoding of (k, v), before any remote call is made.
ImportSuccess ==
    \A e \in ImportEndpoints, k \in ImportKeyIds, v \in ImportKeyVersionIds :
        (/\ op = "readKmsKeyVersion"
         /\ d0.management_endpoint = Nil
         /\ d0.id = importId(e, k, v)
         /\ calls = <<>>) =>
            /\ d.management_endpoint = e
            /\ d.key_id = k
            /\ d.key_version_id = v
            /\ d.id = <<"keys", "/">> \o PathEscape(k)
                         \o <<"/", "keyVersions", "/">> \o PathEscape(v)
            /\ pc = "ReadGet" \/ (pc = "idle" /\ ret = "client error")

ImportSuccessWitness ==
    /\ op = "readKmsKeyVersion"
    /\ pc = "ReadGet"
    /\ calls = <<>>
    /\ d0.management_endpoint = Nil
    /\ d0.id = <<"managementEndpoint", "/", "p1", "/", "keys", "/", "k1",
                 "/", "keyVersions", "/", "v1">>
    /\ d.management_endpoint = <<"p1">>
    /\ d.key_id = <<"k1">>
    /\ d.key_version_id = <<"v1">>
    /\ d.id = <<"keys", "/", "k1", "/", "keyVersions", "/", "v1">>

\* The import shape managementEndpoint/{e}/keys/{k}/keyVersions/{v}.
hasImportShape(id) ==
    /\ Len(id) >= 2
    /\ id[1] = "managementEndpoint"
    /\ id[2] = "/"
    /\ \E i \in 3..Len(id) : \E j \in 3..Len(id) :
          /\ j >= i + 3
          /\ SubSeq(id, i, i + 2) = <<"/", "keys", "/">>
          /\ j + 2 <= Len(id)
          /\ SubSeq(id, j, j + 2) = <<"/", "keyVersions", "/">>

\* C11: a read of local state without a management endpoint whose
\* identifier does not have the import shape returns the format error,
\* leaves management_endpoint, key_id, key_version_id and the identifier as
\* they were, and issues no remote call.
ImportFailureNotPartial ==
    (/\ op = "readKmsKeyVersion"
     /\ d0.management_endpoint = Nil
     /\ ~hasImportShape(d0.id)) =>
        /\ pc = "idle"
        /\ ret = "id should be of format"
        /\ d = d0
        /\ calls = <<>>

ImportFailureNotPartialWitness ==
    /\ op = "readKmsKeyVersion"
    /\ pc = "idle"
    /\ ret = "id should be of format"
    /\ d0.id = <<"managementEndpoint", "/", "p1", "/", "keys", "/", "k1">>
    /\ d.management_endpoint = Nil
    /\ d.key_id = Nil
    /\ d.id = d0.id
    /\ calls = <<>>

(***************************************************************************)
(* SetData() on its own: a local state and a snapshot are drawn, and the   *)
(* method is called once and then once more.                               *)
(***************************************************************************)
\* Identifiers the local state holds when SetData() is called.
ProjectIds ==
    {<<"keys", "/", "k1", "/", "keyVersions", "/", "v1">>,
     <<"keys", "/", "%", "2", "F", "/", "keyVersions", "/", "%", "2", "5">>,
     <<"junk">>,
     <<"managementEndpoint", "/", "p1", "/", "keys", "/", "k1">>}

\* Local states before the call: each group of fields set or unset.
ProjectLocals ==
    {[id |-> id,
      management_endpoint |-> IF declared THEN <<"p1">> ELSE Nil,
      key_id |-> IF declared THEN <<"k0">> ELSE Nil,
      key_version_id |-> IF versioned THEN <<"v0">> ELSE Nil,
      time_of_deletion |-> IF computed THEN RFC3339NanoString ELSE Nil,
      compartment_id |-> IF computed THEN <<"c0">> ELSE Nil,
      state |-> IF computed THEN <<"CREATING">> ELSE Nil,
      time_created |-> IF computed THEN GoTimeString ELSE Nil,
      vault_id |-> IF computed THEN <<"vault0">> ELSE Nil] :
        id \in ProjectIds, declared \in BOOLEAN, versioned \in BOOLEAN,
        computed \in BOOLEAN}

\* Snapshots: every pointer field nil or set.
ProjectSnapshots ==
    [Id : {<<"v1">>},
     KeyId : {Nil, <<"k2">>},
     CompartmentId : {Nil, <<"c1">>},
     LifecycleState : {<<"ENABLED">>, <<"PENDING_DELETION">>},
     TimeCreated : {Nil, T1},
     TimeOfDeletion : {Nil, T1},
     VaultId : {Nil, <<"vault1">>}]

InitProject ==
    /\ codec = [stage |-> "idle", keyId |-> <<>>, keyVersionId |-> <<>>,
                compositeId |-> <<>>, out |-> NoResult]
    /\ env = ""
    /\ d \in ProjectLocals
    /\ Res \in ProjectSnapshots
    /\ pc = "SetData"
    /\ op = "SetData"
    /\ ret = "running"
    /\ calls = <<>>
    /\ response = NoKeyVersion
    /\ slept = 0
    /\ polls = 0
    /\ d0 = d
    /\ ops = 0
    /\ observed = <<>>

\* The first call of SetData(); it returns nil (line 286).
ProjectOnce ==
    /\ pc = "SetData"
    /\ d' = SetData(d, Res)
    /\ ret' = "nil"
    /\ pc' = "SetDataAgain"
    /\ UNCHANGED <<observed, codec, env, Res, op, calls, response, slept, polls,
                   d0, ops>>

\* A second call with the same snapshot.
ProjectTwice ==
    /\ pc = "SetDataAgain"
    /\ d' = SetData(d, Res)
    /\ ret' = "nil"
    /\ pc' = "SetDataDone"
    /\ UNCHANGED <<observed, codec, env, Res, op, calls, response, slept, polls,
                   d0, ops>>

NextProject == ProjectOnce \/ ProjectTwice

SpecProject == InitProject /\ [][NextProject]_vars

timeText(t) == IF t = Nil THEN Nil ELSE sdkTimeString(t)

\* Fields that SetData() takes from the snapshot alone.
snapshotFieldsProjected ==
    /\ d.compartment_id =
          IF Res.CompartmentId # Nil THEN Res.CompartmentId ELSE d0.compartment_id
    /\ d.state = Res.LifecycleState
    /\ d.time_created =
          IF Res.TimeCreated # Nil THEN timeText(Res.TimeCreated)
          ELSE d0.time_created
    /\ d.time_of_deletion =
          IF Res.TimeOfDeletion # Nil THEN timeText(Res.TimeOfDeletion)
          ELSE d0.time_of_deletion
    /\ d.vault_id = IF Res.VaultId # Nil THEN Res.VaultId ELSE d0.vault_id

\* C12 as stated: after SetData() every local field whose snapshot field is
\* present equals the snapshot's value and every local field whose snapshot
\* field is nil keeps its prior value, key_id included; management_endpoint
\* and the identifier are not modified.
ProjectionFrame ==
    pc = "SetDataAgain" =>
        /\ snapshotFieldsProjected
        /\ d.key_id = IF Res.KeyId # Nil THEN Res.KeyId ELSE d0.key_id
        /\ d.management_endpoint = d0.management_endpoint
        /\ d.id = d0.id

\* C12 amended: as above, except that key_id, when the snapshot has no
\* KeyId, and key_version_id, always, hold the values decoded from the
\* identifier when it decodes, and their prior values when it does not.
ProjectionFrameDecoded ==
    pc = "SetDataAgain" =>
        LET p == parseKeyVersionCompositeId(d0.id)
        IN /\ snapshotFieldsProjected
           /\ d.key_id = IF Res.KeyId # Nil THEN Res.KeyId
                         ELSE IF p.err THEN d0.key_id ELSE p.keyId
           /\ d.key_version_id = IF p.err THEN d0.key_version_id
                                 ELSE p.keyVersionId
           /\ d.management_endpoint = d0.management_endpoint
           /\ d.id = d0.id

ProjectionFrameDecodedWitness ==
    /\ pc = "SetDataAgain"
    /\ Res.KeyId = Nil
    /\ Res.VaultId = Nil
    /\ Res.CompartmentId = <<"c1">>
    /\ d0.id = <<"keys", "/", "k1", "/", "keyVersions", "/", "v1">>
    /\ d0.key_id = <<"k0">>
    /\ d0.vault_id = <<"vault0">>
    /\ d.key_id = <<"k1">>
    /\ d.key_version_id = <<"v1">>
    /\ d.vault_id = <<"vault0">>
    /\ d.compartment_id = <<"c1">>

\* C13 as stated: when the identifier does not decode, SetData() still
\* returns nil, key_id and key_version_id keep their prior values, and the
\* snapshot's compartment_id, state, time_created, time_of_deletion and
\* vault_id are projected.
ProjectionBadIdTolerated ==
    (pc = "SetDataAgain" /\ parseKeyVersionCompositeId(d0.id).err) =>
        /\ ret = "nil"
        /\ d.key_id = d0.key_id
        /\ d.key_version_id = d0.key_version_id
        /\ snapshotFieldsProjected

\* C13 amended: when the identifier does not decode, SetData() still returns
\* nil, key_version_id keeps its prior value, key_id keeps its prior value
\* unless the snapshot has a KeyId, which it then takes, and the snapshot's
\* other fields are projected.
ProjectionBadIdKeepsVersion ==
    (pc = "SetDataAgain" /\ parseKeyVersionCompositeId(d0.id).err) =>
        /\ ret = "nil"
        /\ d.key_id = IF Res.KeyId # Nil THEN Res.KeyId ELSE d0.key_id
        /\ d.key_version_id = d0.key_version_id
        /\ snapshotFieldsProjected

ProjectionBadIdKeepsVersionWitness ==
    /\ pc = "SetDataAgain"
    /\ d0.id = <<"junk">>
    /\ d0.key_id = <<"k0">>
    /\ d0.key_version_id = <<"v0">>
    /\ d0.state = <<"CREATING">>
    /\ Res.KeyId = <<"k2">>
    /\ Res.TimeOfDeletion = T1
    /\ ret = "nil"
    /\ d.key_id = <<"k2">>
    /\ d.key_version_id = <<"v0">>
    /\ d.state = Res.LifecycleState
    /\ d.time_of_deletion = GoTimeString

secondSetDataChangesNothing == pc = "SetDataAgain" => d' = d

\* C14: a second SetData() with the same snapshot leaves every local field
\* as the first call left it.
ProjectionIdempotent == [][secondSetDataChangesNothing]_vars

ProjectionIdempotentWitness ==
    /\ pc = "SetDataDone"
    /\ d # d0
    /\ d0.id = <<"keys", "/", "%", "2", "F", "/", "keyVersions", "/", "%", "2", "5">>
    /\ d0.key_id = <<"k0">>
    /\ d.key_id = <<"/">>
    /\ d.key_version_id = <<"%">>

(***************************************************************************)
(* The lifecycle poller on its own: a poll after Create or after Delete    *)
(* observes any answer of the service, until it ends or is cancelled.  The *)
(* deadline passes at any observation, and at the latest at the            *)
(* MaxObservations-th.                                                     *)
(***************************************************************************)
\* What one observation (a call of Get) may answer.
PollAnswers ==
    [err : RemoteErrors, state : {<<>>}] \cup [err : {"nil"}, state : LifecycleStates]

InitPoll ==
    /\ codec = [stage |-> "idle", keyId |-> <<>>, keyVersionId |-> <<>>,
                compositeId |-> <<>>, out |-> NoResult]
    /\ env = ""
    /\ d = [NoData EXCEPT !.id = <<"keys", "/", "k1", "/", "keyVersions", "/", "v1">>,
                          !.management_endpoint = <<"p1">>,
                          !.key_id = <<"k1">>]
    /\ Res = NoKeyVersion
    /\ \/ pc = "CreatePoll" /\ op = "createKmsKeyVersion"
       \/ pc = "DeletePoll" /\ op = "deleteKmsKeyVersion"
    /\ ret = "running"
    /\ calls = <<>>
    /\ response = NoKeyVersion
    /\ slept = 0
    /\ polls = 0
    /\ d0 = d
    /\ ops = 1
    /\ observed = <<>>

\* One observation: the answer is logged with what the poll makes of it
\* before the deadline, and the poll goes on or ends.
PollObserve(pending, target, absentIsDeleted) ==
    \E a \in PollAnswers, expired \in BOOLEAN :
       LET g == [err |-> a.err,
                 Res |-> [NoKeyVersion EXCEPT !.LifecycleState = a.state]]
           o == pollOutcome(g, pending, target,
                            expired \/ polls + 1 >= MaxObservations,
                            absentIsDeleted)
       IN /\ observed' = Append(observed,
                                [err |-> a.err, state |-> a.state,
                                 class |-> pollOutcome(g, pending, target, FALSE,
                                                       absentIsDeleted)])
          /\ Res' = g.Res
          /\ polls' = polls + 1
          /\ pc' = IF o = "wait" THEN pc ELSE "PollDone"
          /\ ret' = IF o = "wait" THEN ret
                    ELSE IF o = "success" THEN "nil" ELSE o
          /\ UNCHANGED <<codec, env, d, op, calls, response, slept, d0, ops>>

PollCreated ==
    /\ pc = "CreatePoll"
    /\ PollObserve(CreatedPending, CreatedTarget, FALSE)

PollDeleted ==
    /\ pc = "DeletePoll"
    /\ PollObserve(DeletedPending, DeletedTarget, TRUE)

\* The driver cancels a poll that is under way.
PollCancel ==
    /\ pc \in {"CreatePoll", "DeletePoll"}
    /\ pc' = "PollDone"
    /\ ret' = "Cancelled"
    /\ UNCHANGED <<observed, codec, env, d, Res, op, calls, response, slept,
                   polls, d0, ops>>

NextPoll == PollCreated \/ PollDeleted \/ PollCancel

SpecPoll == InitPoll /\ [][NextPoll]_vars

\* The poller keeps running until the poll ends.
SpecPollFair == SpecPoll /\ WF_vars(NextPoll)

creating == op = "createKmsKeyVersion"
pollEnded == pc = "PollDone"

\* The i-th observation answered with lifecycle state st.
sawState(i, st) == observed[i].err = "nil" /\ observed[i].state = st

\* Every observation before the i-th answered with a state in states.
allEarlierIn(i, states) ==
    \A j \in 1..(i - 1) : observed[j].err = "nil" /\ observed[j].state \in states

\* C15: in the poll after Create, an observation of ENABLED that follows
\* only observations of CREATING or ENABLING is the last observation and the
\* poll has succeeded; a poll that saw no such observation has not
\* succeeded.
CreatePollSuccessPoint ==
    creating =>
        /\ \A i \in 1..Len(observed) :
              (/\ sawState(i, <<"ENABLED">>)
               /\ allEarlierIn(i, {<<"CREATING">>, <<"ENABLING">>})) =>
                   /\ i = Len(observed)
                   /\ pollEnded
                   /\ ret = "nil"
        /\ ret = "nil" =>
              /\ Len(observed) >= 1
              /\ sawState(Len(observed), <<"ENABLED">>)
              /\ allEarlierIn(Len(observed), {<<"CREATING">>, <<"ENABLING">>})

CreatePollSuccessPointWitness ==
    /\ creating
    /\ pollEnded
    /\ ret = "nil"
    /\ Len(observed) = 3
    /\ sawState(1, <<"CREATING">>)
    /\ sawState(2, <<"CREATING">>)
    /\ sawState(3, <<"ENABLED">>)

\* States that are neither pending nor target in the poll under way.
unexpectedStates ==
    IF creating
    THEN LifecycleStates \ {<<"CREATING">>, <<"ENABLING">>, <<"ENABLED">>}
    ELSE LifecycleStates \ {<<"DISABLED">>, <<"DELETING">>,
                            <<"SCHEDULING_DELETION">>, <<"DELETED">>,
                            <<"PENDING_DELETION">>}

\* C16: in either poll, an observation of a state that is neither pending
\* nor target is the last observation, and the poll has failed with
\* UnexpectedState.
PollerDivergence ==
    \A i \in 1..Len(observed) :
        (observed[i].err = "nil" /\ observed[i].state \in unexpectedStates) =>
            /\ i = Len(observed)
            /\ pollEnded
            /\ ret = "UnexpectedState"

PollerDivergenceWitness ==
    /\ ~creating
    /\ pollEnded
    /\ ret = "UnexpectedState"
    /\ Len(observed) = 2
    /\ sawState(1, <<"DELETING">>)
    /\ sawState(2, <<"ENABLED">>)

\* The last remote call was a GetKeyVersion the service answered NotFound.
getAnsweredNotFound ==
    /\ calls # <<>>
    /\ lastCall(calls).rpc = "GetKeyVersion"
    /\ lastCall(calls).err = "NotFound"

\* C17: a Get answered NotFound ends the handler; Delete then returns nil,
\* Create and Read return the NotFound error.
NotFoundAsymmetry ==
    getAnsweredNotFound =>
        /\ pc = "idle"
        /\ ret = IF op = "deleteKmsKeyVersion" THEN "nil" ELSE "NotFound"

NotFoundAsymmetryWitness ==
    /\ getAnsweredNotFound
    /\ op = "deleteKmsKeyVersion"
    /\ Len(calls) = 2
    /\ calls[1].rpc = "ScheduleKeyVersionDeletion"
    /\ pc = "idle"
    /\ ret = "nil"

\* The pending states of the poll under way.
pendingStates ==
    IF creating THEN {<<"CREATING">>, <<"ENABLING">>}
    ELSE {<<"DISABLED">>, <<"DELETING">>, <<"SCHEDULING_DELETION">>}

\* Every observation so far answered with a pending state.
allPending == allEarlierIn(Len(observed) + 1, pendingStates)

pollEnding ==
    /\ pollEnded =>
          ret \in {"nil", "UnexpectedState", "Timeout", "NotFound", "RemoteError",
                   "Cancelled"}
    /\ ~pollEnded => ret = "running" /\ Len(observed) < MaxObservations
    /\ (Len(observed) = MaxObservations /\ allPending) => pollEnded
    /\ (pollEnded /\ ret # "Cancelled" /\ Len(observed) >= 1 /\ allPending) =>
          ret = "Timeout"
    /\ ret = "Timeout" => Len(observed) >= 1 /\ allPending
    /\ ret = "Cancelled" => pollEnded /\ allPending

noObserveOnceEnded == pollEnded => observed' = observed

\* C18: a poll ends, and ends with success, UnexpectedState, Timeout, the
\* error of an observation, or the cancellation error; a poll that has
\* seen only pending states and was not cancelled ends with Timeout, at the
\* deadline at the latest; a cancelled poll has the cancellation error, and
\* a poll that ended makes no further observation.
PollTermination == []pollEnding /\ [][noObserveOnceEnded]_vars /\ <>pollEnded

PollTerminationWitness ==
    /\ creating
    /\ pollEnded
    /\ ret = "Timeout"
    /\ Len(observed) = MaxObservations
    /\ allPending
    /\ sawState(1, <<"CREATING">>)
    /\ sawState(2, <<"ENABLING">>)

\* The one poll verdict an observed state st has under pending and target.
verdicts(st, pending, target) ==
    {v \in {"wait", "success", "UnexpectedState"} :
        \/ v = "wait" /\ st \in pending
        \/ v = "success" /\ st \in target
        \/ v = "UnexpectedState" /\ st \notin pending \cup target}

\* C19: the four state tables are the stated sets, pending and target of
\* an operation are disjoint, every member is one of the eight lifecycle
\* states, and every observed state has exactly one verdict, which is what
\* the poll made of it.
StateTables ==
    /\ CreatedPending = {<<"CREATING">>, <<"ENABLING">>}
    /\ CreatedTarget = {<<"ENABLED">>}
    /\ DeletedPending = {<<"DISABLED">>, <<"DELETING">>, <<"SCHEDULING_DELETION">>}
    /\ DeletedTarget = {<<"DELETED">>, <<"PENDING_DELETION">>}
    /\ CreatedPending \cap CreatedTarget = {}
    /\ DeletedPending \cap DeletedTarget = {}
    /\ Cardinality(LifecycleStates) = 8
    /\ (CreatedPending \cup CreatedTarget \cup DeletedPending \cup DeletedTarget)
          \subseteq LifecycleStates
    /\ \A i \in 1..Len(observed) :
          observed[i].err = "nil" =>
              LET vs == IF creating
                        THEN verdicts(observed[i].state, CreatedPending,
                                      CreatedTarget)
                        ELSE verdicts(observed[i].state, DeletedPending,
                                      DeletedTarget)
              IN vs = {observed[i].class}

StateTablesWitness ==
    /\ ~creating
    /\ pollEnded
    /\ ret = "nil"
    /\ Len(observed) = 3
    /\ sawState(1, <<"SCHEDULING_DELETION">>)
    /\ observed[1].class = "wait"
    /\ sawState(2, <<"DISABLED">>)
    /\ sawState(3, <<"PENDING_DELETION">>)
    /\ observed[3].class = "success"

\* C20: a Delete() that finds in time_of_deletion a value SetData() wrote
\* (one the configuration did not supply) does not fail on parsing it.
TimestampCompatibility ==
    (/\ op = "deleteKmsKeyVersion"
     /\ pc = "idle"
     /\ d0.time_of_deletion \notin LocalTimes) =>
        ret # "InvalidTimestamp"

====
